---------------------------- MODULE Spec2Model ----------------------------
(***************************************************************************)
(* A model of migrate_frontegg_accounts.py: the migration of tenants,       *)
(* permission categories, permissions and user role assignments from a     *)
(* source account ("src") to a destination account ("dst").                 *)
(*                                                                         *)
(* The two remote accounts are the environment: their collections are      *)
(* state variables, every HTTP answer (200, 429, another failure) is a      *)
(* nondeterministic choice, and every request the program sends is          *)
(* appended to the history variable reqs.                                   *)
(***************************************************************************)
EXTENDS Integers, Sequences, FiniteSets, TLC

VARIABLES
    pc,                  \* the program's position
    run,                 \* how many times the program was started
    token,               \* per account: "valid" or "expired" (FronteggClient.token/token_expiry)
    expiries,            \* how many times a token has expired so far
    reqs,                \* history: every HTTP request sent, in order
    srcTenants,          \* source account: its tenants
    destTenants,         \* destination account: its tenants
    srcCategories,       \* source account: its permission categories
    destCategories,      \* destination account: its permission categories
    srcPermissions,      \* source account: its permissions
    destPermissions,     \* destination account: permissions created by the run
    srcUsers,            \* source account: its users
    destUsers,           \* destination account: its users
    srcRoles,            \* source account: its roles
    destRoles,           \* destination account: its roles
    srcAssign,           \* source account: role assignment records
    csvPresent,          \* whether the two CSV input files exist
    pg,                  \* get_all_paginated_items: its frame
    fetched,             \* the value the last paginated fetch returned
    source_tenants,      \* migrate_tenants: source_tenants
    existing_tenants,    \* bulk_create_tenants: existing_tenants
    idx,                 \* the index of the loop the program is in
    source_categories,   \* migrate_settings: source_categories
    category_mapping,    \* migrate_settings: category_mapping
    source_permissions,  \* migrate_settings: source_permissions (categoryId rewritten)
    source_users,        \* migrate_users: source_users
    users_df,            \* migrate_users: users_df
    tenant_ix,           \* get_all_user_roles: position in tenant_ids
    all_user_roles,      \* get_all_user_roles / get_user_roles: the rows collected
    source_roles,        \* get_role_id_translations: source_roles
    user_details,        \* account_data/user_details_prod.csv
    user_passwords,      \* account_data/user_passwords_prod.csv
    migration_data,      \* account_data/migration_data.csv, as create_migration_csv wrote it
    call                 \* a call of translate_role_ids: its arguments, its result, its log lines

serverVars == <<srcTenants, destTenants, srcCategories, destCategories,
                srcPermissions, destPermissions, srcUsers, destUsers,
                srcRoles, destRoles, srcAssign, csvPresent>>
tenantLocals == <<source_tenants, existing_tenants>>
settingsLocals == <<source_categories, category_mapping, source_permissions>>
userLocals == <<source_users, users_df, tenant_ix, all_user_roles, source_roles>>
csvFiles == <<user_details, user_passwords, migration_data>>
auxVars == <<csvFiles, call>>
vars == <<pc, run, token, expiries, reqs, serverVars, pg, fetched, idx,
          tenantLocals, settingsLocals, userLocals, auxVars>>

-----------------------------------------------------------------------------
(* Bounds of the model. *)

MaxTenants == 2          \* source tenants in a tenant-stage run
MaxPageItems == 3        \* items of the collection of the pagination runs
PageLimit == 1           \* items the server puts on one page
MaxExpiries == 1         \* token expiries in one behaviour
MaxCats == 2             \* source categories in a settings-stage run
MaxDestCats == 1         \* categories the destination holds before the run
MaxPerms == 2            \* source permissions in a settings-stage run
ChunkSize == 2           \* user ids in one role request (chunk_size, 100 in the code)
MaxUsers == 2            \* users of an account in a run of the user join
MaxRoles == 2            \* roles of an account in a users-stage run
MaxRoleIds == 2          \* role ids in one assignment record
MaxChunkUsers == 3       \* source users in a run of the role fetch
MaxCsvUsers == 2         \* rows of the user file in a run of the CSV merge
MaxHashRows == 3         \* rows of the hash file in a run of the CSV merge
MaxTimestamp == 3        \* distinct createdAt values of the hash file

(* The universes the accounts' data is drawn from. *)
Accounts == {"src", "dst"}
TenantIds == {"t1", "t2"}
Metadata == {"none", "valid", "invalid"}   \* absent, a JSON text, not a JSON text
Outcomes == {"ok", "429", "err"}           \* HTTP 2xx, HTTP 429, any other failure

Min(a, b) == IF a < b THEN a ELSE b

SeqsUpTo(S, n) == UNION {[1..k -> S] : k \in 0..n}

Range(s) == {s[i] : i \in 1..Len(s)}

NoDup(s) == \A i, j \in 1..Len(s) : i # j => s[i] # s[j]


-----------------------------------------------------------------------------
(* migrate(): the order of the stages *)

(* The position of the program after an exception has left migrate() in a stage. *)
Crashed(stage) ==
    CASE stage = "Tenants"     -> "crashed_tenants"
      [] stage = "Credentials" -> "crashed_credentials"
      [] stage = "Categories"  -> "crashed_categories"
      [] stage = "Permissions" -> "crashed_permissions"
      [] OTHER                 -> "crashed_users"

IsCrashed(p) == p \in {"crashed_tenants", "crashed_credentials", "crashed_categories",
                       "crashed_permissions", "crashed_users"}

AfterStageSwapped(stage) ==
    CASE stage = "Tenants"     -> "csv"
      [] stage = "Credentials" -> "s_perms"
      [] stage = "Permissions" -> "s_srccat"
      [] stage = "Categories"  -> "u_src"
      [] OTHER                 -> "done"

(* lines 441-462, 379-397: where the program goes on when a stage has      *)
(* returned: tenants, the CSV, categories, permissions, users.             *)
AfterStage(stage) ==
    CASE stage = "Tenants"     -> "csv"
      [] stage = "Credentials" -> "s_srccat"
      [] stage = "Categories"  -> "s_perms"
      [] stage = "Permissions" -> "u_src"
      [] OTHER                 -> "done"

-----------------------------------------------------------------------------
(* FronteggClient and make_request_with_rate_limiting *)

BaseUrlOfSource(c) == "https://api.frontegg.com"

(* lines 28-29, 78-88: BASE_URL_1 for the source client, BASE_URL_2 for the destination client *)
BaseUrl(c) == IF c = "src" THEN "https://api.frontegg.com" ELSE "https://api.us.frontegg.com"

(* What make_request_with_rate_limiting raises to its caller for an answer  *)
(* of the server: a 2xx answer is returned; on 429 the call time.sleep()    *)
(* names a module that is not imported, so a NameError leaves the           *)
(* function (it is no RequestException); any other failure is re-raised.    *)
MakeRequestRaises(status) ==
    CASE status = "ok"  -> "none"
      [] status = "429" -> "NameError"
      [] OTHER          -> "RequestException"

(* One entry of the request history. *)
Req(c, method, path, params, body, tenantHdr, status, stage, stale) ==
    [acct |-> c, method |-> method, url |-> <<BaseUrl(c), path>>,
     params |-> params, body |-> body, tenantHdr |-> tenantHdr,
     status |-> status, raised |-> MakeRequestRaises(status),
     stage |-> stage, run |-> run, stale |-> stale]

(* get_headers: authenticate() runs when the token is absent or expired.   *)
NeedsAuth(c) == token[c] # "valid"

(* The outcomes of get_headers: no authentication needed, a new token, the *)
(* credential rejected, a JSON answer without accessToken, a 2xx answer    *)
(* whose body is not JSON (and so carries no token).                       *)
AuthOutcomes(c) ==
    IF NeedsAuth(c) THEN {"ok", "rejected", "notoken", "notjson"} ELSE {"skip"}

AuthFailed(a) == a \in {"rejected", "notoken", "notjson"}

(* lines 57-71: raise_for_status raises an HTTPError, line 62 a ValueError, *)
(* response.json() at line 58 a JSONDecodeError; each is logged and raised  *)
(* again.                                                                  *)
AuthRaises(a) ==
    CASE a = "rejected" -> "RequestException"
      [] a = "notoken"  -> "ValueError"
      [] a = "notjson"  -> "JSONDecodeError"
      [] OTHER          -> "none"

AuthReqs(c, a, stage) ==
    IF a = "skip" THEN <<>>
    ELSE <<[acct |-> c, method |-> "POST", url |-> <<BaseUrl(c), <<"auth_vendor">>>>,
            params |-> <<>>, body |-> <<"clientId", "secret">>, tenantHdr |-> "",
            status |-> a, raised |-> AuthRaises(a),
            stage |-> stage, run |-> run, stale |-> FALSE]>>

TokenAfter(c, a) == IF a = "ok" THEN [token EXCEPT ![c] = "valid"] ELSE token

(* Whether a request sent now with headers built earlier carries an expired token. *)
Stale(c) == token[c] # "valid"

(* The token of an account expires (time passes). *)
Expire(c) ==
    /\ pc # "done" /\ ~IsCrashed(pc)
    /\ token[c] = "valid"
    /\ expiries < MaxExpiries
    /\ token' = [token EXCEPT ![c] = "expired"]
    /\ expiries' = expiries + 1
    /\ UNCHANGED <<pc, run, reqs, serverVars, pg, fetched, idx,
                   tenantLocals, settingsLocals, userLocals, auxVars>>

-----------------------------------------------------------------------------
(* The server's side of a paginated collection *)

DestTenantIds == {destTenants[i].tenantId : i \in 1..Len(destTenants)}

Collection(c, coll) ==
    CASE c = "src" /\ coll = "tenants_v2" -> srcTenants
      [] c = "dst" /\ coll = "tenants_v2" -> destTenants
      [] c = "src" /\ coll = "users_v2"   -> srcUsers
      [] c = "dst" /\ coll = "users_v2"   -> destUsers

PageCount(list) ==
    IF Len(list) = 0 THEN 1 ELSE (Len(list) + PageLimit - 1) \div PageLimit

PageItems(list, k) == SubSeq(list, (k - 1) * PageLimit + 1, Min(k * PageLimit, Len(list)))

(* The opaque relative link the server gives for page k of a collection. *)
NextLink(coll, k) == <<coll, "cursor", k>>

PageOf(path) == IF Len(path) = 1 THEN 1 ELSE path[3]

ServerPage(c, coll, k) ==
    LET list == Collection(c, coll) IN
    [items |-> PageItems(list, k),
     next  |-> IF k < PageCount(list) THEN NextLink(coll, k + 1) ELSE <<>>]

-----------------------------------------------------------------------------
(* get_all_paginated_items *)

NoPg == [client |-> "", coll |-> "", next_url |-> <<>>, params |-> <<>>,
         items |-> <<>>, ret |-> "", stage |-> ""]

(* lines 117-119: the next request's address and query after a page that   *)
(* carried a next link.                                                    *)
NextUrl(endpoint, next_link) == next_link

NextParamsKept(params, next_link) == params

NextParams(params, next_link) == <<>>

(* lines 106-110: the call, up to the loop. get_headers is called once.    *)
StartFetch(c, coll, params, ret, stage) ==
    \E a \in AuthOutcomes(c) :
        /\ reqs' = reqs \o AuthReqs(c, a, stage)
        /\ token' = TokenAfter(c, a)
        /\ IF AuthFailed(a)
           THEN pc' = Crashed(stage) /\ pg' = pg
           ELSE /\ pc' = "paging"
                /\ pg' = [client |-> c, coll |-> coll, next_url |-> <<coll>>,
                          params |-> params, items |-> <<>>, ret |-> ret,
                          stage |-> stage]

(* lines 111-123: one turn of the loop, one page request. A failure of the *)
(* request leaves the function and every caller up to migrate().           *)
FetchPage ==
    /\ pc = "paging"
    /\ \E st \in Outcomes :
        LET page == ServerPage(pg.client, pg.coll, PageOf(pg.next_url))
            items == pg.items \o page.items
        IN  /\ reqs' = Append(reqs, Req(pg.client, "GET", pg.next_url, pg.params,
                                        <<>>, "", st, pg.stage, Stale(pg.client)))
            /\ IF MakeRequestRaises(st) # "none"
               THEN pc' = Crashed(pg.stage) /\ UNCHANGED <<pg, fetched>>
               ELSE IF page.next # <<>>
                    THEN /\ pg' = [pg EXCEPT !.items = items,
                                             !.next_url = NextUrl(pg.next_url, page.next),
                                             !.params = NextParams(pg.params, page.next)]
                         /\ UNCHANGED <<pc, fetched>>
                    ELSE /\ pc' = pg.ret
                         /\ fetched' = items
                         /\ pg' = NoPg
    /\ UNCHANGED <<run, token, expiries, serverVars, idx,
                   tenantLocals, settingsLocals, userLocals, auxVars>>

-----------------------------------------------------------------------------
(* The tenant stage: migrate_tenants, bulk_create_tenants *)

(* line 171: source_tenants = get_tenants(source_client) *)
BeginMigrateTenants ==
    /\ pc = "start"
    /\ StartFetch("src", "tenants_v2", <<"_limit">>, "t_dst", "Tenants")
    /\ UNCHANGED <<run, expiries, serverVars, fetched, idx,
                   tenantLocals, settingsLocals, userLocals, auxVars>>

(* lines 172, 161: bulk_create_tenants starts with get_tenants(destination_client) *)
BeginBulkCreate ==
    /\ pc = "t_dst"
    /\ source_tenants' = fetched
    /\ StartFetch("dst", "tenants_v2", <<"_limit">>, "t_existing", "Tenants")
    /\ UNCHANGED <<run, expiries, serverVars, fetched, idx, existing_tenants,
                   settingsLocals, userLocals, auxVars>>

(* line 161: the set of the tenantIds of the destination snapshot *)
ExistingTenants(snapshot) == {snapshot[i].tenantId : i \in 1..Len(snapshot)}

SnapshotTaken ==
    /\ pc = "t_existing"
    /\ existing_tenants' = ExistingTenants(fetched)
    /\ idx' = 1
    /\ pc' = "t_create"
    /\ UNCHANGED <<run, token, expiries, reqs, serverVars, pg, fetched,
                   source_tenants, settingsLocals, userLocals, auxVars>>

TenantExistsNever(tenant, existing) == FALSE

(* lines 163-165: a tenant of the snapshot is skipped *)
TenantExists(tenant, existing) == tenant.tenantId \in existing

(* The destination's tenants after a create request it answered with 2xx. *)
TenantCreated(list, tenantId) ==
    IF \E i \in 1..Len(list) : list[i].tenantId = tenantId
    THEN list
    ELSE Append(list, [tenantId |-> tenantId, meta |-> "none"])

(* lines 162-166 with create_tenant (133-146): one turn of the loop *)
CreateTenantStep ==
    /\ pc = "t_create"
    /\ idx <= Len(source_tenants)
    /\ LET tenant == source_tenants[idx] IN
       \/ /\ TenantExists(tenant, existing_tenants)
          /\ idx' = idx + 1
          /\ UNCHANGED <<pc, token, reqs, destTenants>>
       \/ /\ ~TenantExists(tenant, existing_tenants)
          /\ \E a \in AuthOutcomes("dst"), st \in Outcomes :
               /\ token' = TokenAfter("dst", a)
               /\ IF AuthFailed(a)
                  THEN /\ reqs' = reqs \o AuthReqs("dst", a, "Tenants")
                       /\ pc' = Crashed("Tenants")
                       /\ UNCHANGED <<idx, destTenants>>
                  ELSE /\ reqs' = reqs \o AuthReqs("dst", a, "Tenants")
                                   \o <<Req("dst", "POST", <<"tenants_v1">>, <<>>,
                                            <<tenant.tenantId>>, "", st, "Tenants", FALSE)>>
                       /\ destTenants' = IF st = "ok"
                                         THEN TenantCreated(destTenants, tenant.tenantId)
                                         ELSE destTenants
                       /\ idx' = idx + 1
                       /\ pc' = pc
    /\ UNCHANGED <<run, expiries, srcTenants, srcCategories, destCategories,
                   srcPermissions, destPermissions, srcUsers, destUsers,
                   srcRoles, destRoles, srcAssign, csvPresent, pg, fetched,
                   tenantLocals, settingsLocals, userLocals, auxVars>>

(* line 167: the loop of bulk_create_tenants is over *)
BulkCreateDone ==
    /\ pc = "t_create"
    /\ idx > Len(source_tenants)
    /\ pc' = "t_meta"
    /\ idx' = 1
    /\ UNCHANGED <<run, token, expiries, reqs, serverVars, pg, fetched,
                   tenantLocals, settingsLocals, userLocals, auxVars>>

(* The destination's tenants after a metadata request it answered with 2xx. *)
MetadataSet(list, tenantId) ==
    [i \in 1..Len(list) |->
        IF list[i].tenantId = tenantId THEN [list[i] EXCEPT !.meta = "valid"] ELSE list[i]]

(* line 175: if metadata: an absent or empty metadata text is falsy *)
MetadataTruthy(meta) == meta # "none"

(* line 177: json.loads(metadata) returns for a JSON text, and raises      *)
(* JSONDecodeError for any other text                                      *)
MetadataParses(meta) == meta = "valid"

(* lines 176-180: set_tenant_metadata is called inside the try whose       *)
(* handler is except json.JSONDecodeError. The error response.json()       *)
(* raises in authenticate() is of that class, and the handler takes it for *)
(* invalid metadata, unless the simplejson package is installed, whose     *)
(* decoder and error class requests then uses. No other error of           *)
(* authenticate() is caught.                                               *)
CaughtAsInvalidMetadata(raised) ==
    IF raised = "JSONDecodeError" THEN {TRUE, FALSE} ELSE {FALSE}

(* lines 173-180 with set_tenant_metadata (148-157): one turn of the loop *)
MetadataStep ==
    /\ pc = "t_meta"
    /\ idx <= Len(source_tenants)
    /\ LET tenant == source_tenants[idx] IN
       \/ /\ ~MetadataTruthy(tenant.meta)               \* line 175: falsy
          /\ idx' = idx + 1
          /\ UNCHANGED <<pc, token, reqs, destTenants>>
       \/ /\ MetadataTruthy(tenant.meta)
          /\ ~MetadataParses(tenant.meta)               \* line 179: JSONDecodeError
          /\ idx' = idx + 1
          /\ UNCHANGED <<pc, token, reqs, destTenants>>
       \/ /\ MetadataTruthy(tenant.meta)
          /\ MetadataParses(tenant.meta)
          /\ \E a \in AuthOutcomes("dst"), st \in Outcomes :
               /\ token' = TokenAfter("dst", a)
               /\ IF AuthFailed(a)
                  THEN /\ reqs' = reqs \o AuthReqs("dst", a, "Tenants")
                       /\ UNCHANGED destTenants
                       /\ \E caught \in CaughtAsInvalidMetadata(AuthRaises(a)) :
                            IF caught
                            THEN idx' = idx + 1 /\ pc' = pc
                            ELSE idx' = idx /\ pc' = Crashed("Tenants")
                  ELSE /\ reqs' = reqs \o AuthReqs("dst", a, "Tenants")
                                   \o <<Req("dst", "POST",
                                            <<"tenants_v1", tenant.tenantId, "metadata">>,
                                            <<>>, <<"metadata">>, "", st, "Tenants", FALSE)>>
                       /\ destTenants' = IF st = "ok"
                                         THEN MetadataSet(destTenants, tenant.tenantId)
                                         ELSE destTenants
                       /\ idx' = idx + 1
                       /\ pc' = pc
    /\ UNCHANGED <<run, expiries, srcTenants, srcCategories, destCategories,
                   srcPermissions, destPermissions, srcUsers, destUsers,
                   srcRoles, destRoles, srcAssign, csvPresent, pg, fetched,
                   tenantLocals, settingsLocals, userLocals, auxVars>>

(* line 181: migrate_tenants returns *)
TenantsDone ==
    /\ pc = "t_meta"
    /\ idx > Len(source_tenants)
    /\ pc' = AfterStage("Tenants")
    /\ idx' = 0
    /\ UNCHANGED <<run, token, expiries, reqs, serverVars, pg, fetched,
                   tenantLocals, settingsLocals, userLocals, auxVars>>

(* The tenant stage is run again against the destination the last run left. *)
RerunTenants ==
    /\ pc = "csv"
    /\ run = 1
    /\ run' = 2
    /\ pc' = "start"
    /\ source_tenants' = <<>>
    /\ existing_tenants' = {}
    /\ fetched' = <<>>
    /\ UNCHANGED <<token, expiries, reqs, serverVars, pg, idx,
                   settingsLocals, userLocals, auxVars>>

-----------------------------------------------------------------------------
(* The settings stage: migrate_settings *)

(* A Python value that is falsy: None (a missing dictionary entry). *)
Truthy(x) == x # "None"

(* dict.get(key): the entry, or None. *)
DictGet(d, key) == IF key \in DOMAIN d THEN d[key] ELSE "None"

Max(S) == CHOOSE x \in S : \A y \in S : y <= x

Least(S) == CHOOSE x \in S : \A y \in S : x <= y

(* The id the destination gives the next category it creates. *)
DestCatIdPool == <<"k1", "k2", "k3", "k4", "k5", "k6", "k7", "k8", "k9">>

CategoryCreated(list, name) ==
    Append(list, [id |-> DestCatIdPool[Len(list) + 1], name |-> name])

(* lines 378, 347-358: get_categories(source_client); a failure gives [] *)
GetSourceCategories ==
    /\ pc = "s_srccat"
    /\ \E a \in AuthOutcomes("src"), st \in Outcomes :
        /\ token' = TokenAfter("src", a)
        /\ IF AuthFailed(a)
           THEN /\ reqs' = reqs \o AuthReqs("src", a, "Categories")
                /\ pc' = Crashed("Categories")
                /\ UNCHANGED source_categories
           ELSE /\ reqs' = reqs \o AuthReqs("src", a, "Categories")
                            \o <<Req("src", "GET", <<"categories">>, <<>>, <<>>, "",
                                     st, "Categories", FALSE)>>
                /\ source_categories' = IF MakeRequestRaises(st) = "none"
                                        THEN srcCategories ELSE <<>>
                /\ pc' = "s_create_begin"
    /\ UNCHANGED <<run, expiries, serverVars, pg, fetched, idx, tenantLocals,
                   category_mapping, source_permissions, userLocals, auxVars>>

(* lines 379, 360-363: create_categories builds its headers once *)
BeginCreateCategories ==
    /\ pc = "s_create_begin"
    /\ \E a \in AuthOutcomes("dst") :
        /\ token' = TokenAfter("dst", a)
        /\ reqs' = reqs \o AuthReqs("dst", a, "Categories")
        /\ IF AuthFailed(a)
           THEN pc' = Crashed("Categories") /\ idx' = idx
           ELSE pc' = "s_create" /\ idx' = 1
    /\ UNCHANGED <<run, expiries, serverVars, pg, fetched, tenantLocals,
                   settingsLocals, userLocals, auxVars>>

(* lines 364-373: one turn of the loop; every source category is posted *)
CreateCategoryStep ==
    /\ pc = "s_create"
    /\ idx <= Len(source_categories)
    /\ \E st \in Outcomes :
         LET category == source_categories[idx] IN
         /\ reqs' = Append(reqs, Req("dst", "POST", <<"categories">>, <<>>,
                                     <<category.name>>, "", st, "Categories",
                                     Stale("dst")))
         /\ destCategories' = IF st = "ok"
                              THEN CategoryCreated(destCategories, category.name)
                              ELSE destCategories
    /\ idx' = idx + 1
    /\ UNCHANGED <<pc, run, token, expiries, srcTenants, destTenants, srcCategories,
                   srcPermissions, destPermissions, srcUsers, destUsers,
                   srcRoles, destRoles, srcAssign, csvPresent, pg, fetched,
                   tenantLocals, settingsLocals, userLocals, auxVars>>

(* line 386-388: next(...): the id of the first destination category of the name *)
FirstDestId(destination_categories, name) ==
    LET hits == {j \in 1..Len(destination_categories) :
                    destination_categories[j].name = name}
    IN  IF hits = {} THEN "None" ELSE destination_categories[Least(hits)].id

(* lines 385-390: the dictionary comprehension; a later source category of *)
(* the same id overwrites an earlier one                                   *)
CategoryMapping(src_cats, destination_categories) ==
    [id \in {src_cats[i].id : i \in 1..Len(src_cats)} |->
        LET last == Max({i \in 1..Len(src_cats) : src_cats[i].id = id})
        IN  FirstDestId(destination_categories, src_cats[last].name)]

(* lines 382-390: get_categories(destination_client), then the mapping *)
GetDestCategories ==
    /\ pc = "s_create"
    /\ idx > Len(source_categories)
    /\ \E a \in AuthOutcomes("dst"), st \in Outcomes :
        /\ token' = TokenAfter("dst", a)
        /\ IF AuthFailed(a)
           THEN /\ reqs' = reqs \o AuthReqs("dst", a, "Categories")
                /\ pc' = Crashed("Categories")
                /\ UNCHANGED <<category_mapping, idx>>
           ELSE /\ reqs' = reqs \o AuthReqs("dst", a, "Categories")
                            \o <<Req("dst", "GET", <<"categories">>, <<>>, <<>>, "",
                                     st, "Categories", FALSE)>>
                /\ category_mapping' =
                      CategoryMapping(source_categories,
                                      IF MakeRequestRaises(st) = "none"
                                      THEN destCategories ELSE <<>>)
                /\ idx' = 0
                /\ pc' = AfterStage("Categories")
    /\ UNCHANGED <<run, expiries, serverVars, pg, fetched, tenantLocals,
                   source_categories, source_permissions, userLocals, auxVars>>

(* lines 393-396: every permission's categoryId is replaced by the mapping's *)
(* entry, None when there is none                                           *)
RewriteCategoryIds(permissions, mapping) ==
    [i \in 1..Len(permissions) |->
        [permissions[i] EXCEPT !.categoryId = DictGet(mapping, permissions[i].categoryId)]]

(* lines 392-396: get_permissions(source_client); a failure gives [] *)
GetSourcePermissions ==
    /\ pc = "s_perms"
    /\ \E a \in AuthOutcomes("src"), st \in Outcomes :
        /\ token' = TokenAfter("src", a)
        /\ IF AuthFailed(a)
           THEN /\ reqs' = reqs \o AuthReqs("src", a, "Permissions")
                /\ pc' = Crashed("Permissions")
                /\ UNCHANGED source_permissions
           ELSE /\ reqs' = reqs \o AuthReqs("src", a, "Permissions")
                            \o <<Req("src", "GET", <<"permissions">>, <<>>, <<>>, "",
                                     st, "Permissions", FALSE)>>
                /\ source_permissions' =
                      RewriteCategoryIds(IF MakeRequestRaises(st) = "none"
                                         THEN srcPermissions ELSE <<>>,
                                         category_mapping)
                /\ pc' = "s_createperms"
    /\ UNCHANGED <<run, expiries, serverVars, pg, fetched, idx, tenantLocals,
                   source_categories, category_mapping, userLocals, auxVars>>

KeepPermissionAll(p) == TRUE

(* line 339: if p.get('categoryId') *)
KeepPermission(p) == Truthy(p.categoryId)

(* lines 333-339: the body of the request; a falsy categoryId is left out *)
PermissionsData(permissions) == SelectSeq(permissions, KeepPermission)

(* lines 397, 329-345: create_permissions sends one request with the list *)
CreatePermissions ==
    /\ pc = "s_createperms"
    /\ \E a \in AuthOutcomes("dst"), st \in Outcomes :
        /\ token' = TokenAfter("dst", a)
        /\ IF AuthFailed(a)
           THEN /\ reqs' = reqs \o AuthReqs("dst", a, "Permissions")
                /\ pc' = Crashed("Permissions")
                /\ UNCHANGED destPermissions
           ELSE /\ reqs' = reqs \o AuthReqs("dst", a, "Permissions")
                            \o <<Req("dst", "POST", <<"permissions">>, <<>>,
                                     PermissionsData(source_permissions), "",
                                     st, "Permissions", FALSE)>>
                /\ destPermissions' = IF st = "ok"
                                      THEN destPermissions
                                           \o PermissionsData(source_permissions)
                                      ELSE destPermissions
                /\ pc' = AfterStage("Permissions")
    /\ UNCHANGED <<run, expiries, srcTenants, destTenants, srcCategories,
                   destCategories, srcPermissions, srcUsers, destUsers,
                   srcRoles, destRoles, srcAssign, csvPresent, pg, fetched, idx,
                   tenantLocals, settingsLocals, userLocals, auxVars>>

-----------------------------------------------------------------------------
(* The users stage: migrate_users *)

(* str.lower() on the e-mail addresses of the model *)
Lower(email) ==
    CASE email = "A@x" -> "a@x"
      [] email = "B@x" -> "b@x"
      [] OTHER         -> email

(* lines 283-284: the email column lower-cased *)
LowerEmails(users) == [i \in 1..Len(users) |-> [users[i] EXCEPT !.email = Lower(users[i].email)]]

RECURSIVE FlatMap(_, _, _)
(* The rows Op(x, ctx) gives for the elements x of a list, one after another. *)
FlatMap(Op(_, _), list, ctx) ==
    IF list = <<>> THEN <<>>
    ELSE Op(Head(list), ctx) \o FlatMap(Op, Tail(list), ctx)

UserKeyMatches(l, r) == l.email = r.email /\ l.tenantId = r.tenantId

(* The rows of a left merge for one left row: one per right row of the same *)
(* (email, tenantId), in the right frame's order; one with a missing        *)
(* id_dest when there is none.                                              *)
LeftRows(l, right) ==
    LET hits == SelectSeq(right, LAMBDA r : UserKeyMatches(l, r)) IN
    IF hits = <<>>
    THEN <<[email |-> l.email, tenantId |-> l.tenantId, id_source |-> l.id, id_dest |-> "NaN"]>>
    ELSE [j \in 1..Len(hits) |->
            [email |-> l.email, tenantId |-> l.tenantId, id_source |-> l.id,
             id_dest |-> hits[j].id]]

(* lines 287-293: pd.merge(source, destination, on=[email, tenantId], how='left') *)
LeftMerge(left, right) == FlatMap(LeftRows, left, right)

RECURSIVE Unique(_)
(* Series.unique(): the values in the order of their first appearance *)
Unique(list) ==
    IF list = <<>> THEN <<>>
    ELSE LET init == Unique(SubSeq(list, 1, Len(list) - 1))
             last == list[Len(list)]
         IN  IF last \in Range(init) THEN init ELSE Append(init, last)

(* line 211 *)
TenantIdsOf(df) == Unique([i \in 1..Len(df) |-> df[i].tenantId])

(* lines 214-215: the source ids of the rows of one tenant *)
UserIdsOf(df, tenant_id) ==
    LET rows == SelectSeq(df, LAMBDA row : row.tenantId = tenant_id)
    IN  [i \in 1..Len(rows) |-> rows[i].id_source]

ChunkToTheEnd(user_ids, i, chunk_size) == SubSeq(user_ids, i + 1, Len(user_ids))

(* lines 197-198: the chunk that starts at offset i *)
Chunk(user_ids, i, chunk_size) == SubSeq(user_ids, i + 1, Min(i + chunk_size, Len(user_ids)))

(* The server's answer to a role request: the assignment record of every   *)
(* user asked for that has one, each once.                                 *)
RolesResponse(chunk) ==
    FlatMap(LAMBDA uid, table : SelectSeq(table, LAMBDA rec : rec.userId = uid),
            Unique(chunk), srcAssign)

(* lines 276, 183-189: source_users = get_all_users(source_client) *)
BeginGetSourceUsers ==
    /\ pc = "u_src"
    /\ StartFetch("src", "users_v2", <<"_limit", "_includeSubTenants">>, "u_dst", "Users")
    /\ UNCHANGED <<run, expiries, serverVars, fetched, idx,
                   tenantLocals, settingsLocals, userLocals, auxVars>>

(* line 277: destination_users = get_all_users(destination_client) *)
BeginGetDestUsers ==
    /\ pc = "u_dst"
    /\ source_users' = fetched
    /\ StartFetch("dst", "users_v2", <<"_limit", "_includeSubTenants">>, "u_merge", "Users")
    /\ UNCHANGED <<run, expiries, serverVars, fetched, idx, tenantLocals,
                   settingsLocals, users_df, tenant_ix, all_user_roles, source_roles, auxVars>>

(* lines 279-295: the two frames and their merge. A frame built from an    *)
(* empty list has no column, and reading its email column raises KeyError. *)
MergeUsers ==
    /\ pc = "u_merge"
    /\ IF source_users = <<>> \/ fetched = <<>>
       THEN pc' = Crashed("Users") /\ UNCHANGED <<users_df, tenant_ix, all_user_roles>>
       ELSE /\ users_df' = LeftMerge(LowerEmails(source_users), LowerEmails(fetched))
            /\ tenant_ix' = 1
            /\ all_user_roles' = <<>>
            /\ pc' = "u_roles"
    /\ UNCHANGED <<run, token, expiries, reqs, serverVars, pg, fetched, idx,
                   tenantLocals, settingsLocals, source_users, source_roles, auxVars>>

(* lines 213-217, 191-196: get_user_roles for the next tenant, up to its loop *)
BeginTenantRoles ==
    /\ pc = "u_roles"
    /\ tenant_ix <= Len(TenantIdsOf(users_df))
    /\ \E a \in AuthOutcomes("src") :
        /\ token' = TokenAfter("src", a)
        /\ reqs' = reqs \o AuthReqs("src", a, "Users")
        /\ IF AuthFailed(a)
           THEN pc' = Crashed("Users") /\ idx' = idx
           ELSE pc' = "u_chunk" /\ idx' = 0
    /\ UNCHANGED <<run, expiries, serverVars, pg, fetched, tenantLocals,
                   settingsLocals, userLocals, auxVars>>

(* lines 197-205: one chunk of one tenant; a failure loses the chunk *)
ChunkStep ==
    /\ pc = "u_chunk"
    /\ LET tenant_id == TenantIdsOf(users_df)[tenant_ix]
           user_ids == UserIdsOf(users_df, tenant_id)
           chunk == Chunk(user_ids, idx, ChunkSize)
       IN  /\ idx < Len(user_ids)
           /\ \E st \in Outcomes :
                /\ reqs' = Append(reqs, Req("src", "GET", <<"user_roles">>, <<"ids", chunk>>,
                                            <<>>, tenant_id, st, "Users", Stale("src")))
                /\ all_user_roles' = IF MakeRequestRaises(st) = "none"
                                     THEN all_user_roles \o RolesResponse(chunk)
                                     ELSE all_user_roles
           /\ idx' = idx + ChunkSize
    /\ UNCHANGED <<pc, run, token, expiries, serverVars, pg, fetched, tenantLocals,
                   settingsLocals, source_users, users_df, tenant_ix, source_roles, auxVars>>

(* lines 206-207, 218: get_user_roles returns *)
TenantRolesDone ==
    /\ pc = "u_chunk"
    /\ idx >= Len(UserIdsOf(users_df, TenantIdsOf(users_df)[tenant_ix]))
    /\ tenant_ix' = tenant_ix + 1
    /\ idx' = 0
    /\ pc' = "u_roles"
    /\ UNCHANGED <<run, token, expiries, reqs, serverVars, pg, fetched, tenantLocals,
                   settingsLocals, source_users, users_df, all_user_roles, source_roles, auxVars>>

(* line 245: {role['key']: role['id'] for role in roles_list}; a later role *)
(* of the same key overwrites an earlier one                                *)
RolesDict(roles_list) ==
    [key \in {roles_list[i].key : i \in 1..Len(roles_list)} |->
        roles_list[Max({i \in 1..Len(roles_list) : roles_list[i].key = key})].id]

(* lines 254-260: source id -> destination id, for the keys of both accounts *)
RoleIdTranslation(src_dict, dst_dict) ==
    LET keys == {k \in DOMAIN src_dict : Truthy(DictGet(dst_dict, k))} IN
    [sid \in {src_dict[k] : k \in keys} |->
        dst_dict[CHOOSE k \in keys : src_dict[k] = sid]]

TranslatedIdsSubstituted(translation, role_ids) ==
    [i \in 1..Len(role_ids) |->
        IF Truthy(DictGet(translation, role_ids[i])) THEN translation[role_ids[i]]
        ELSE role_ids[i]]

(* lines 264-271: the ids that have a translation, translated, in order *)
TranslatedIds(translation, role_ids) ==
    LET known == SelectSeq(role_ids, LAMBDA r : Truthy(DictGet(translation, r)))
    IN  [i \in 1..Len(known) |-> translation[known[i]]]

(* json.dumps / json.loads of a list of ids: the text and the list it reads as *)
JsonDumps(list) == [json |-> list]

JsonLoads(text) == text.json

(* lines 264-272 *)
translate_role_ids(translation, role_ids) == JsonDumps(TranslatedIds(translation, role_ids))

(* lines 307-309: the roleIds column translated *)
TranslateColumn(rows, translation) ==
    [i \in 1..Len(rows) |->
        [rows[i] EXCEPT !.roleIds = translate_role_ids(translation, rows[i].roleIds)]]

InnerRows(l, right) ==
    LET hits == SelectSeq(right, LAMBDA r : r.userId = l.id_source) IN
    [j \in 1..Len(hits) |->
        [email |-> l.email, tenantId |-> l.tenantId, id_source |-> l.id_source,
         id_dest |-> l.id_dest, roleIds |-> hits[j].roleIds]]

(* lines 311-312: the inner merge on id_source = userId and the projection *)
InnerMerge(left, right) == FlatMap(InnerRows, left, right)

(* line 225: Series.notnull(): a JSON text is never null *)
NotNull(value) == value # [null |-> TRUE]

(* line 225: the rows assign_user_roles sends a request for *)
RowsToAssign(df) == SelectSeq(df, LAMBDA row : NotNull(row.roleIds))

(* lines 305, 252, 237-248: get_roles_mapping(source_client); a failure gives {} *)
GetSourceRoles ==
    /\ pc = "u_roles"
    /\ tenant_ix > Len(TenantIdsOf(users_df))
    /\ \E a \in AuthOutcomes("src"), st \in Outcomes :
        /\ token' = TokenAfter("src", a)
        /\ IF AuthFailed(a)
           THEN /\ reqs' = reqs \o AuthReqs("src", a, "Users")
                /\ pc' = Crashed("Users")
                /\ UNCHANGED source_roles
           ELSE /\ reqs' = reqs \o AuthReqs("src", a, "Users")
                            \o <<Req("src", "GET", <<"roles">>, <<>>, <<>>, "",
                                     st, "Users", FALSE)>>
                /\ source_roles' = IF MakeRequestRaises(st) = "none"
                                   THEN RolesDict(srcRoles) ELSE <<>>
                /\ pc' = "u_dstroles"
    /\ UNCHANGED <<run, expiries, serverVars, pg, fetched, idx, tenantLocals,
                   settingsLocals, source_users, users_df, tenant_ix, all_user_roles, auxVars>>

(* lines 253-262, 307-313: get_roles_mapping(destination_client), the      *)
(* translation, and the frame assign_user_roles works on. A frame built    *)
(* from no role row has no roleIds column: reading it raises KeyError.     *)
GetDestRoles ==
    /\ pc = "u_dstroles"
    /\ \E a \in AuthOutcomes("dst"), st \in Outcomes :
        /\ token' = TokenAfter("dst", a)
        /\ IF AuthFailed(a)
           THEN /\ reqs' = reqs \o AuthReqs("dst", a, "Users")
                /\ pc' = Crashed("Users")
                /\ UNCHANGED <<users_df, idx>>
           ELSE /\ reqs' = reqs \o AuthReqs("dst", a, "Users")
                            \o <<Req("dst", "GET", <<"roles">>, <<>>, <<>>, "",
                                     st, "Users", FALSE)>>
                /\ IF all_user_roles = <<>>
                   THEN pc' = Crashed("Users") /\ UNCHANGED <<users_df, idx>>
                   ELSE LET destination_roles == IF MakeRequestRaises(st) = "none"
                                                 THEN RolesDict(destRoles) ELSE <<>>
                            translation == RoleIdTranslation(source_roles, destination_roles)
                        IN  /\ users_df' = InnerMerge(users_df,
                                              TranslateColumn(all_user_roles, translation))
                            /\ idx' = 1
                            /\ pc' = "u_assign"
    /\ UNCHANGED <<run, expiries, serverVars, pg, fetched, tenantLocals,
                   settingsLocals, source_users, tenant_ix, all_user_roles, source_roles, auxVars>>

(* lines 225-234: one row of assign_user_roles; a failure of the request is logged *)
AssignStep ==
    /\ pc = "u_assign"
    /\ idx <= Len(RowsToAssign(users_df))
    /\ \E a \in AuthOutcomes("dst"), st \in Outcomes :
        LET row == RowsToAssign(users_df)[idx] IN
        /\ token' = TokenAfter("dst", a)
        /\ IF AuthFailed(a)
           THEN /\ reqs' = reqs \o AuthReqs("dst", a, "Users")
                /\ pc' = Crashed("Users")
                /\ idx' = idx
           ELSE /\ reqs' = reqs \o AuthReqs("dst", a, "Users")
                            \o <<Req("dst", "POST", <<"users_v1", row.id_dest, "roles">>,
                                     <<>>, JsonLoads(row.roleIds), row.tenantId,
                                     st, "Users", FALSE)>>
                /\ idx' = idx + 1
                /\ pc' = pc
    /\ UNCHANGED <<run, expiries, serverVars, pg, fetched, tenantLocals,
                   settingsLocals, userLocals, auxVars>>

(* lines 235, 314: assign_user_roles and migrate_users return *)
UsersDone ==
    /\ pc = "u_assign"
    /\ idx > Len(RowsToAssign(users_df))
    /\ pc' = AfterStage("Users")
    /\ UNCHANGED <<run, token, expiries, reqs, serverVars, pg, fetched, idx,
                   tenantLocals, settingsLocals, userLocals, auxVars>>

-----------------------------------------------------------------------------
(* The credentials stage and migrate *)

(* A CSV file is a frame: its header, a list of column names, and its rows, *)
(* each a function from the column names to the cells. A missing cell is   *)
(* NaN; no file is NoFile.                                                 *)
NoFile == [columns |-> <<>>, rows |-> <<>>]

(* line 410: pd.to_datetime of the createdAt text of a hash row *)
ToDatetime(text) == text.iso

(* The user ids that have a row in the hash file. *)
HashedUserIds(hashes_df) == {hashes_df.rows[i].userId : i \in 1..Len(hashes_df.rows)}

LastRowsOfFile(hashes_df, userId) ==
    {Max({i \in 1..Len(hashes_df.rows) : hashes_df.rows[i].userId = userId})}

(* The rows of a user that sort_values('createdAt') can put last: those of *)
(* the user's greatest createdAt.                                          *)
LastRowsOf(hashes_df, userId) ==
    LET mine == {i \in 1..Len(hashes_df.rows) : hashes_df.rows[i].userId = userId}
    IN  {i \in mine : \A j \in mine :
            ToDatetime(hashes_df.rows[j].createdAt) <= ToDatetime(hashes_df.rows[i].createdAt)}

(* line 413: sort_values('createdAt').groupby('userId').tail(1): for every *)
(* user the last of its rows in the sorted order. The sort is not stable,  *)
(* so rows of one user with equal createdAt can come in either order: each *)
(* value is one outcome, userId |-> the row kept.                         *)
LatestHashes(hashes_df) ==
    {f \in [HashedUserIds(hashes_df) -> 1..Len(hashes_df.rows)] :
        \A u \in DOMAIN f : f[u] \in LastRowsOf(hashes_df, u)}

(* The columns the merge adds to the left frame: those of the right frame  *)
(* but the key.                                                            *)
AddedColumns(right) == SelectSeq(right.columns, LAMBDA col : col # "userId")

(* line 416: users_df.merge(latest_hashes, on='userId', how='left'): every *)
(* user row once (latest holds one row for a userId at most), with the     *)
(* cells of the hash row kept for its userId, or NaN.                      *)
MergeLatest(users, hashes_df, latest) ==
    LET added == AddedColumns(hashes_df)
        cols == users.columns \o added
    IN  [columns |-> cols,
         rows |-> [i \in 1..Len(users.rows) |->
                    [col \in Range(cols) |->
                        IF col \in Range(users.columns) THEN users.rows[i][col]
                        ELSE IF users.rows[i].userId \in DOMAIN latest
                             THEN hashes_df.rows[latest[users.rows[i].userId]][col]
                             ELSE "NaN"]]]

(* lines 418-431: columns_to_select, in the order of its keys *)
columns_to_select ==
    << <<"name", "name">>, <<"email", "email">>, <<"tenantId", "tenantId">>,
       <<"account", "tenantId">>, <<"hash", "passwordHash">>,
       <<"password", "passwordHash">>, <<"phone", "phoneNumber">>,
       <<"profilePictureUrl", "profilePictureUrl">>,
       <<"authenticatorSecret", "authenticatorAppMfaSecret">>,
       <<"additionalFields", "metadata">>, <<"provider", "provider">>,
       <<"verified", "verifyUser">> >>

(* line 432: the keys of columns_to_select that are columns of final_df;   *)
(* the values of the table are not read                                    *)
FinalColumns(final_df) ==
    LET present == SelectSeq(columns_to_select, LAMBDA e : e[1] \in Range(final_df.columns))
    IN  [i \in 1..Len(present) |-> present[i][1]]

(* line 433: final_df[final_columns] *)
SelectColumns(final_df, final_columns) ==
    [columns |-> final_columns,
     rows |-> [i \in 1..Len(final_df.rows) |->
                [col \in Range(final_columns) |-> final_df.rows[i][col]]]]

(* lines 409-434: the file create_migration_csv writes for an outcome of    *)
(* the sort                                                                *)
MigrationCsv(users, hashes_df, latest) ==
    LET final_df == MergeLatest(users, hashes_df, latest)
    IN  SelectColumns(final_df, FinalColumns(final_df))

(* lines 443-454, 400-435: create_migration_csv reads the two files, merges *)
(* them and writes the result; a missing file raises FileNotFoundError,    *)
(* which leaves migrate().                                                 *)
CsvStage ==
    /\ pc = "csv"
    /\ IF csvPresent
       THEN /\ \E latest \in LatestHashes(user_passwords) :
                 migration_data' = MigrationCsv(user_details, user_passwords, latest)
            /\ pc' = AfterStage("Credentials")
       ELSE /\ pc' = Crashed("Credentials")
            /\ UNCHANGED migration_data
    /\ UNCHANGED <<run, token, expiries, reqs, serverVars, pg, fetched, idx,
                   tenantLocals, settingsLocals, userLocals,
                   user_details, user_passwords, call>>

-----------------------------------------------------------------------------
(* translate_role_ids, called on its own *)

NoCall == [state |-> "none"]

TranslateLogNone(translation, role_ids) == <<>>

(* line 271: one log line for every id that has no translation *)
TranslateLog(translation, role_ids) ==
    SelectSeq(role_ids, LAMBDA r : ~Truthy(DictGet(translation, r)))

(* lines 264-272: the call returns; no statement of the function raises    *)
TranslateReturns ==
    /\ pc = "translate"
    /\ call.state = "called"
    /\ call' = [call EXCEPT !.state = "returned",
                            !.result = translate_role_ids(call.role_id_translation,
                                                          call.role_ids),
                            !.log = TranslateLog(call.role_id_translation, call.role_ids)]
    /\ UNCHANGED <<pc, run, token, expiries, reqs, serverVars, pg, fetched, idx,
                   tenantLocals, settingsLocals, userLocals, csvFiles>>

(* The stage of migrate() a position of the program lies in. *)
StageOf(p) ==
    CASE p \in {"start", "t_dst", "t_existing", "t_create", "t_meta"} -> "Tenants"
      [] p = "csv" -> "Credentials"
      [] p \in {"s_srccat", "s_create_begin", "s_create"} -> "Categories"
      [] p \in {"s_perms", "s_createperms"} -> "Permissions"
      [] p \in {"u_src", "u_dst", "u_merge", "u_roles", "u_chunk", "u_dstroles", "u_assign"} -> "Users"
      [] p = "paging" -> pg.stage
      [] OTHER -> "none"

(* lines 441-460: the order of the calls of migrate() *)
StageRank(stage) ==
    CASE stage = "Tenants" -> 1
      [] stage = "Credentials" -> 2
      [] stage = "Categories" -> 3
      [] stage = "Permissions" -> 4
      [] stage = "Users" -> 5
      [] OTHER -> 6

-----------------------------------------------------------------------------
(* Initial states *)

TenantRecs == [tenantId : TenantIds, meta : Metadata]

DestTenantLists ==
    {[i \in 1..Len(s) |-> [tenantId |-> s[i], meta |-> "none"]] :
        s \in {<<>>, <<"t1">>, <<"t2">>, <<"t1", "t2">>}}

(* The two CSV files of the example: one user, two hash rows. *)
ExampleUserDetails ==
    [columns |-> <<"userId", "email", "account">>,
     rows |-> <<[userId |-> "u1", email |-> "A@x", account |-> "t1"]>>]

ExampleUserPasswords ==
    [columns |-> <<"userId", "hash", "createdAt">>,
     rows |-> <<[userId |-> "u1", hash |-> "h1", createdAt |-> [iso |-> 2]],
                [userId |-> "u1", hash |-> "h2", createdAt |-> [iso |-> 1]]>>]

InitLocals ==
    /\ run = 1
    /\ expiries = 0
    /\ reqs = <<>>
    /\ pg = NoPg
    /\ fetched = <<>>
    /\ idx = 0
    /\ source_tenants = <<>>
    /\ existing_tenants = {}
    /\ source_categories = <<>>
    /\ category_mapping = <<>>
    /\ source_permissions = <<>>
    /\ source_users = <<>>
    /\ users_df = <<>>
    /\ tenant_ix = 0
    /\ all_user_roles = <<>>
    /\ source_roles = <<>>
    /\ migration_data = NoFile

InitProgram ==
    /\ InitLocals
    /\ user_details = ExampleUserDetails
    /\ user_passwords = ExampleUserPasswords
    /\ call = NoCall

NoSettingsData ==
    /\ srcCategories = <<>>
    /\ destCategories = <<>>
    /\ srcPermissions = <<>>
    /\ destPermissions = <<>>

NoUserData ==
    /\ srcUsers = <<>>
    /\ destUsers = <<>>
    /\ srcRoles = <<>>
    /\ destRoles = <<>>
    /\ srcAssign = <<>>

(* The token of one of the two accounts expires. *)
TokenExpires == \E c \in Accounts : Expire(c)

(* The tenant stage, run once, with metadata of every kind. The sessions   *)
(* were authenticated when they were built (line 46), and a token can      *)
(* expire at any moment of the stage.                                      *)
InitTenantsOnce ==
    /\ InitProgram
    /\ token = [c \in Accounts |-> "valid"]
    /\ pc = "start"
    \* the two tenant ids are interchangeable: the first source tenant is t1
    /\ srcTenants \in {s \in SeqsUpTo(TenantRecs, MaxTenants) :
                          s # <<>> => s[1].tenantId = "t1"}
    /\ destTenants \in DestTenantLists
    /\ NoSettingsData
    /\ NoUserData
    /\ csvPresent = TRUE

NextTenantsOnce ==
    \/ BeginMigrateTenants
    \/ FetchPage
    \/ BeginBulkCreate
    \/ SnapshotTaken
    \/ CreateTenantStep
    \/ BulkCreateDone
    \/ MetadataStep
    \/ TenantsDone
    \/ TokenExpires

SpecTenantsOnce == InitTenantsOnce /\ [][NextTenantsOnce]_vars

(* The tenants of the runs that are repeated: without metadata, or with     *)
(* metadata that parses.                                                   *)
ParsedTenantRecs == [tenantId : TenantIds, meta : {"none", "valid"}]

(* The tenant stage, run once and then a second time. *)
InitTenants ==
    /\ InitProgram
    /\ token = [c \in Accounts |-> "valid"]
    /\ pc = "start"
    \* the two tenant ids are interchangeable: the first source tenant is t1
    /\ srcTenants \in {s \in SeqsUpTo(ParsedTenantRecs, MaxTenants) :
                          s # <<>> => s[1].tenantId = "t1"}
    /\ destTenants \in DestTenantLists
    /\ NoSettingsData
    /\ NoUserData
    /\ csvPresent = TRUE

NextTenants ==
    \/ BeginMigrateTenants
    \/ FetchPage
    \/ BeginBulkCreate
    \/ SnapshotTaken
    \/ CreateTenantStep
    \/ BulkCreateDone
    \/ MetadataStep
    \/ TenantsDone
    \/ RerunTenants

SpecTenants == InitTenants /\ [][NextTenants]_vars


SrcCatIdPool == <<"c1", "c2", "c3", "c4">>
CatNames == {"Billing", "Admin"}
PermKeyPool == <<"p1", "p2", "p3", "p4">>
PermCatIds == {"c1", "c2", "c9"}       \* c9: the id of no source category

SrcCategoryLists ==
    UNION {{[i \in 1..k |-> [id |-> SrcCatIdPool[i], name |-> n[i]]] : n \in [1..k -> CatNames]}
           : k \in 0..MaxCats}

DestCategoryLists ==
    UNION {{[i \in 1..k |-> [id |-> DestCatIdPool[i], name |-> n[i]]] : n \in [1..k -> CatNames]}
           : k \in 0..MaxDestCats}

SrcPermissionLists ==
    UNION {{[i \in 1..k |-> [key |-> PermKeyPool[i], categoryId |-> c[i]]] : c \in [1..k -> PermCatIds]}
           : k \in 0..MaxPerms}

(* The settings stage. *)
InitSettings ==
    /\ InitProgram
    /\ token = [c \in Accounts |-> "valid"]
    /\ pc = "s_srccat"
    /\ srcTenants = <<>>
    /\ destTenants = <<>>
    /\ srcCategories \in SrcCategoryLists
    /\ destCategories \in DestCategoryLists
    /\ srcPermissions \in SrcPermissionLists
    /\ destPermissions = <<>>
    /\ NoUserData
    /\ csvPresent = TRUE

NextSettings ==
    \/ GetSourceCategories
    \/ BeginCreateCategories
    \/ CreateCategoryStep
    \/ GetDestCategories
    \/ GetSourcePermissions
    \/ CreatePermissions

SpecSettings == InitSettings /\ [][NextSettings]_vars

SrcUserIdPool == <<"u1", "u2", "u3", "u4">>
DestUserIdPool == <<"v1", "v2", "v3", "v4">>
SrcEmails == {"A@x", "b@x"}
DestEmails == {"A@x", "a@x", "b@x"}
SrcRoleIdPool == <<"r1", "r2", "r3", "r4">>
DestRoleIdPool == <<"d1", "d2", "d3", "d4">>
RoleKeys == {"admin", "viewer"}

SrcUserLists ==
    UNION {{[i \in 1..k |-> [id |-> SrcUserIdPool[i], email |-> f[i][1], tenantId |-> f[i][2]]]
            : f \in [1..k -> SrcEmails \X TenantIds]} : k \in 0..MaxUsers}

DestUserLists ==
    UNION {{[i \in 1..k |-> [id |-> DestUserIdPool[i], email |-> f[i][1], tenantId |-> f[i][2]]]
            : f \in [1..k -> DestEmails \X TenantIds]} : k \in 0..MaxUsers}

SrcRoleLists ==
    UNION {{[i \in 1..k |-> [id |-> SrcRoleIdPool[i], key |-> f[i]]]
            : f \in [1..k -> RoleKeys]} : k \in 0..MaxRoles}

DestRoleLists ==
    UNION {{[i \in 1..k |-> [id |-> DestRoleIdPool[i], key |-> f[i]]]
            : f \in [1..k -> RoleKeys]} : k \in 0..MaxRoles}

(* The ids of a list of roles. *)
RoleIdsOf(roles) == {roles[i].id : i \in 1..Len(roles)}

(* The example of the specification: roles admin (r1) and viewer (r2) at    *)
(* the source, admin (d9) at the destination, a user holding r1 and r2.     *)
ExampleSrcRoles == <<[id |-> "r1", key |-> "admin"], [id |-> "r2", key |-> "viewer"]>>
ExampleDestRoles == <<[id |-> "d9", key |-> "admin"]>>

(* The user join: the two user fetches and the merge. *)
InitJoin ==
    /\ InitProgram
    /\ token = [c \in Accounts |-> "valid"]
    /\ pc = "u_src"
    /\ srcTenants = <<>>
    /\ destTenants = <<>>
    /\ NoSettingsData
    /\ srcUsers \in SrcUserLists
    /\ destUsers \in DestUserLists
    /\ srcRoles = <<>>
    /\ destRoles = <<>>
    /\ srcAssign = <<>>
    /\ csvPresent = TRUE

NextJoin ==
    \/ BeginGetSourceUsers
    \/ FetchPage
    \/ BeginGetDestUsers
    \/ MergeUsers

SpecJoin == InitJoin /\ [][NextJoin]_vars

(* The users stage for one source user, with every role list within the    *)
(* bounds and every assignment record over the source's roles.             *)
InitUsers ==
    /\ InitProgram
    /\ token = [c \in Accounts |-> "valid"]
    /\ pc = "u_src"
    /\ srcTenants = <<>>
    /\ destTenants = <<>>
    /\ NoSettingsData
    /\ srcUsers = <<[id |-> "u1", email |-> "A@x", tenantId |-> "t1"]>>
    /\ destUsers \in {<<[id |-> "v1", email |-> "a@x", tenantId |-> t]>> : t \in TenantIds}
    /\ srcRoles \in SrcRoleLists
    /\ destRoles \in DestRoleLists
    /\ srcAssign \in {<<[userId |-> "u1", roleIds |-> r]>> :
                          r \in SeqsUpTo(RoleIdsOf(srcRoles), MaxRoleIds)} \cup {<<>>}
    /\ csvPresent = TRUE

NextUsers ==
    \/ BeginGetSourceUsers
    \/ FetchPage
    \/ BeginGetDestUsers
    \/ MergeUsers
    \/ BeginTenantRoles
    \/ ChunkStep
    \/ TenantRolesDone
    \/ GetSourceRoles
    \/ GetDestRoles
    \/ AssignStep
    \/ UsersDone

SpecUsers == InitUsers /\ [][NextUsers]_vars

(* migrate(): the whole run, on the example of the specification. *)
Init ==
    /\ InitProgram
    /\ token \in [Accounts -> {"valid", "expired"}]
    /\ pc = "start"
    /\ srcTenants \in {<<>>, <<[tenantId |-> "t1", meta |-> "valid"]>>}
    /\ destTenants = <<>>
    /\ srcCategories = <<[id |-> "c1", name |-> "Billing"]>>
    /\ destCategories = <<>>
    /\ srcPermissions = <<[key |-> "p1", categoryId |-> "c1"]>>
    /\ destPermissions = <<>>
    /\ srcUsers = <<[id |-> "u1", email |-> "A@x", tenantId |-> "t1"]>>
    /\ destUsers = <<[id |-> "v1", email |-> "a@x", tenantId |-> "t1"]>>
    /\ srcRoles = ExampleSrcRoles
    /\ destRoles = ExampleDestRoles
    /\ srcAssign = <<[userId |-> "u1", roleIds |-> <<"r1", "r2">>]>>
    /\ csvPresent \in BOOLEAN

Next ==
    \/ BeginMigrateTenants
    \/ FetchPage
    \/ BeginBulkCreate
    \/ SnapshotTaken
    \/ CreateTenantStep
    \/ BulkCreateDone
    \/ MetadataStep
    \/ TenantsDone
    \/ CsvStage
    \/ GetSourceCategories
    \/ BeginCreateCategories
    \/ CreateCategoryStep
    \/ GetDestCategories
    \/ GetSourcePermissions
    \/ CreatePermissions
    \/ BeginGetSourceUsers
    \/ BeginGetDestUsers
    \/ MergeUsers
    \/ BeginTenantRoles
    \/ ChunkStep
    \/ TenantRolesDone
    \/ GetSourceRoles
    \/ GetDestRoles
    \/ AssignStep
    \/ UsersDone

Spec == Init /\ [][Next]_vars

(* One paginated fetch: get_tenants(source_client), up to its return. *)
InitPage ==
    /\ InitProgram
    /\ token = [c \in Accounts |-> "valid"]
    /\ pc = "start"
    /\ srcTenants \in SeqsUpTo(TenantRecs, MaxPageItems)
    /\ destTenants = <<>>
    /\ NoSettingsData
    /\ NoUserData
    /\ csvPresent = TRUE

NextPage ==
    \/ BeginMigrateTenants
    \/ FetchPage

SpecPage == InitPage /\ [][NextPage]_vars

(* translate_role_ids called with every translation and every list of ids  *)
(* within the bounds.                                                      *)
TranslateSourceIds == {"r1", "r2", "r3"}
TranslateDestIds == {"d1", "d2"}

TranslationMaps == UNION {[D -> TranslateDestIds] : D \in SUBSET TranslateSourceIds}

TranslateCalls ==
    {[state |-> "called", role_id_translation |-> m, role_ids |-> ids,
      result |-> JsonDumps(<<>>), log |-> <<>>] :
        m \in TranslationMaps, ids \in SeqsUpTo(TranslateSourceIds, MaxRoleIds)}

NoAccountData ==
    /\ srcTenants = <<>>
    /\ destTenants = <<>>
    /\ NoSettingsData
    /\ NoUserData

InitTranslate ==
    /\ InitLocals
    /\ token = [c \in Accounts |-> "valid"]
    /\ pc = "translate"
    /\ NoAccountData
    /\ csvPresent = TRUE
    /\ user_details = ExampleUserDetails
    /\ user_passwords = ExampleUserPasswords
    /\ call \in TranslateCalls

NextTranslate == TranslateReturns

SpecTranslate == InitTranslate /\ [][NextTranslate]_vars

(* create_migration_csv on every pair of files within the bounds: the user *)
(* file with its columns in every order, the hash file with its rows in    *)
(* every order of their createdAt.                                         *)
CsvUserIds == {"u1", "u2"}
HashPool == <<"h1", "h2", "h3", "h4", "h5", "h6">>
UserColumnPool == {"account", "verified"}

UserColumnOrders == {q \in SeqsUpTo(UserColumnPool, Cardinality(UserColumnPool)) : NoDup(q)}

UserDetailsFiles ==
    {[columns |-> <<"userId">> \o cols,
      rows |-> [i \in 1..Len(ids) |->
                 [col \in Range(<<"userId">> \o cols) |->
                     IF col = "userId" THEN ids[i] ELSE <<col, i>>]]] :
        cols \in UserColumnOrders, ids \in SeqsUpTo(CsvUserIds, MaxCsvUsers)}

UserPasswordsFiles ==
    UNION {{[columns |-> <<"userId", "hash", "createdAt">>,
             rows |-> [i \in 1..k |-> [userId |-> f[i][1], hash |-> HashPool[i],
                                       createdAt |-> [iso |-> f[i][2]]]]] :
              f \in [1..k -> CsvUserIds \X (1..MaxTimestamp)]} : k \in 0..MaxHashRows}

InitCsv ==
    /\ InitLocals
    /\ token = [c \in Accounts |-> "valid"]
    /\ pc = "csv"
    /\ NoAccountData
    /\ csvPresent = TRUE
    /\ user_details \in UserDetailsFiles
    /\ user_passwords \in UserPasswordsFiles
    /\ call = NoCall

NextCsv == CsvStage

SpecCsv == InitCsv /\ [][NextCsv]_vars

(* migrate() on the example, with tokens that expire during the run. *)
InitAuth ==
    /\ InitProgram
    /\ token = [c \in Accounts |-> "valid"]
    /\ pc = "start"
    /\ srcTenants = <<[tenantId |-> "t1", meta |-> "valid"]>>
    /\ destTenants = <<>>
    /\ srcCategories = <<[id |-> "c1", name |-> "Billing"]>>
    /\ destCategories = <<>>
    /\ srcPermissions = <<[key |-> "p1", categoryId |-> "c1"]>>
    /\ destPermissions = <<>>
    /\ srcUsers = <<[id |-> "u1", email |-> "A@x", tenantId |-> "t1"]>>
    /\ destUsers = <<[id |-> "v1", email |-> "a@x", tenantId |-> "t1"]>>
    /\ srcRoles = ExampleSrcRoles
    /\ destRoles = ExampleDestRoles
    /\ srcAssign = <<[userId |-> "u1", roleIds |-> <<"r1", "r2">>]>>
    /\ csvPresent = TRUE

NextAuth ==
    \/ Next
    \/ TokenExpires

SpecAuth == InitAuth /\ [][NextAuth]_vars

(* One paginated fetch, with a token that expires during the fetch. *)
NextPageExpiry ==
    \/ BeginMigrateTenants
    \/ FetchPage
    \/ TokenExpires

SpecPageExpiry == InitPage /\ [][NextPageExpiry]_vars

(* The users stage up to the end of get_all_user_roles: source users in    *)
(* either tenant, each with an assignment record, and a destination with   *)
(* one user or with two users of one key.                                  *)
ChunkSourceUsers ==
    UNION {{[i \in 1..k |-> [id |-> SrcUserIdPool[i], email |-> "b@x", tenantId |-> f[i]]]
            : f \in [1..k -> TenantIds]} : k \in 1..MaxChunkUsers}

AssignmentsOf(users) ==
    [i \in 1..Len(users) |-> [userId |-> users[i].id, roleIds |-> <<"r1">>]]

InitChunks ==
    /\ InitProgram
    /\ token = [c \in Accounts |-> "valid"]
    /\ pc = "u_src"
    /\ srcTenants = <<>>
    /\ destTenants = <<>>
    /\ NoSettingsData
    /\ srcUsers \in ChunkSourceUsers
    /\ destUsers \in {<<[id |-> "v1", email |-> "b@x", tenantId |-> "t1"]>>,
                      <<[id |-> "v1", email |-> "b@x", tenantId |-> "t1"],
                        [id |-> "v2", email |-> "B@x", tenantId |-> "t1"]>>}
    /\ srcRoles = <<>>
    /\ destRoles = <<>>
    /\ srcAssign = AssignmentsOf(srcUsers)
    /\ csvPresent = TRUE

NextChunks ==
    \/ BeginGetSourceUsers
    \/ FetchPage
    \/ BeginGetDestUsers
    \/ MergeUsers
    \/ BeginTenantRoles
    \/ ChunkStep
    \/ TenantRolesDone

SpecChunks == InitChunks /\ [][NextChunks]_vars

-----------------------------------------------------------------------------
(* The requests of the history, by kind *)

IsTenantCreate(r) == r.method = "POST" /\ r.url[2] = <<"tenants_v1">>

TenantCreates(r) == {i \in 1..Len(reqs) : IsTenantCreate(reqs[i]) /\ reqs[i].run = r}

IsCategoryCreate(r) == r.method = "POST" /\ r.url[2] = <<"categories">>

IsCategoryFetch(r, c) == r.method = "GET" /\ r.url[2] = <<"categories">> /\ r.acct = c

IsPermissionCreate(r) == r.method = "POST" /\ r.url[2] = <<"permissions">>

IsRoleFetch(r) == r.method = "GET" /\ r.url[2] = <<"user_roles">>

IsRolesList(r, c) == r.method = "GET" /\ r.url[2] = <<"roles">> /\ r.acct = c

IsMetadataSet(r) == r.method = "POST" /\ Len(r.url[2]) = 3 /\ r.url[2][1] = "tenants_v1"

IsRoleAssign(r) == r.method = "POST" /\ Len(r.url[2]) = 3 /\ r.url[2][1] = "users_v1"

(* The calls made for one item of a loop. *)
IsPerItem(r) ==
    \/ IsTenantCreate(r)
    \/ IsMetadataSet(r)
    \/ IsCategoryCreate(r)
    \/ IsRoleFetch(r)
    \/ IsRoleAssign(r)

Requests(P(_)) == {i \in 1..Len(reqs) : P(reqs[i])}

FirstRunAllCreated == \A i \in TenantCreates(1) : reqs[i].status = "ok"

-----------------------------------------------------------------------------
(* C1: the tenant stage is idempotent. In a second run that follows a first *)
(* run in which every create succeeded, no tenant-create request is sent    *)
(* and the destination's set of tenantIds does not change; and in every run *)
(* no create request is sent for a tenantId of that run's destination       *)
(* snapshot.                                                                *)
C1_SecondRunCreatesNothing ==
    (run = 2 /\ FirstRunAllCreated) => TenantCreates(2) = {}

C1_SnapshotTenantsSkipped ==
    \A i \in TenantCreates(run) : reqs[i].body[1] \notin existing_tenants

C1_DestinationUnchanged ==
    (run = 2 /\ run' = 2 /\ FirstRunAllCreated) => DestTenantIds' = DestTenantIds

C1_TenantReconcileIdempotent ==
    /\ [](C1_SecondRunCreatesNothing /\ C1_SnapshotTenantsSkipped)
    /\ [][C1_DestinationUnchanged]_vars

(* A second run has finished after a first run that created a tenant and   *)
(* whose creates all succeeded.                                            *)
C1_Witness ==
    /\ run = 2
    /\ pc = "csv"
    /\ TenantCreates(1) # {}
    /\ FirstRunAllCreated
    /\ Len(source_tenants) = 2

-----------------------------------------------------------------------------
(* C8: a request answered 429 is waited out and sent again until another   *)
(* answer arrives; a 429 never reaches the caller as a failure.            *)
C8_RateLimitNeverSurfaces ==
    \A i \in 1..Len(reqs) : reqs[i].status = "429" => reqs[i].raised = "none"

-----------------------------------------------------------------------------
(* C9: a paginated fetch of a collection the server gives in N pages       *)
(* returns after exactly N successful requests with the concatenation of   *)
(* the pages' items in page order; the caller's query goes with the first  *)
(* request only, and every later request goes to the account's base        *)
(* address followed by the server's next link.                             *)
RECURSIVE ConcatPages(_, _, _)
ConcatPages(c, coll, k) ==
    IF k = 0 THEN <<>>
    ELSE ConcatPages(c, coll, k - 1) \o ServerPage(c, coll, k).items

C9_PaginatedFetch ==
    pc = "t_dst" =>
        LET N == PageCount(srcTenants) IN
        /\ Len(reqs) = N
        /\ \A k \in 1..N : reqs[k].method = "GET" /\ reqs[k].status = "ok"
                           /\ reqs[k].acct = "src"
        /\ fetched = ConcatPages("src", "tenants_v2", N)
        /\ fetched = srcTenants
        /\ reqs[1].params = <<"_limit">>
        /\ reqs[1].url = <<BaseUrl("src"), <<"tenants_v2">>>>
        /\ \A k \in 2..N :
              /\ reqs[k].params = <<>>
              /\ reqs[k].url = <<BaseUrl("src"), ServerPage("src", "tenants_v2", k - 1).next>>

(* A fetch of three pages has returned. *)
C9_Witness ==
    /\ pc = "t_dst"
    /\ PageCount(srcTenants) = 3
    /\ Len(fetched) = 3


-----------------------------------------------------------------------------
(* C2: the categories stage creates a category only if the destination     *)
(* holds none of its name: no create request is sent for a source category *)
(* whose name the destination already holds.                               *)
DestCategoryNames == {destCategories[i].name : i \in 1..Len(destCategories)}

C2_CreateSentForAbsentName ==
    (Len(reqs') = Len(reqs) + 1 /\ IsCategoryCreate(reqs'[Len(reqs')]))
        => reqs'[Len(reqs')].body[1] \notin DestCategoryNames

C2_CategoryCreateIfAbsent == [][C2_CreateSentForAbsentName]_vars

-----------------------------------------------------------------------------
(* C3: migrate() runs the stages in the order Tenants, Credentials,        *)
(* Categories, Permissions, Users, one after the other; the permission     *)
(* create request follows every category create request and the fetch of   *)
(* the destination's categories; and after an exception has left a stage   *)
(* the history holds no request of a later stage.                          *)
RankRunning == StageRank(StageOf(pc))

C3_RequestsInStageOrder ==
    \A i, j \in 1..Len(reqs) :
        i < j => StageRank(reqs[i].stage) <= StageRank(reqs[j].stage)

C3_RequestsOfTheStageRunning ==
    \A i \in 1..Len(reqs) :
        /\ ~IsCrashed(pc) /\ pc # "done" => StageRank(reqs[i].stage) <= RankRunning
        /\ \A st \in {"Tenants", "Credentials", "Categories", "Permissions", "Users"} :
              pc = Crashed(st) => StageRank(reqs[i].stage) <= StageRank(st)

C3_PermissionsAfterCategories ==
    \A i \in Requests(IsPermissionCreate) :
        /\ \A k \in Requests(IsCategoryCreate) : k < i
        /\ \E j \in 1..(i - 1) : IsCategoryFetch(reqs[j], "dst")
        /\ \A k \in Requests(IsCategoryCreate) :
              \E j \in (k + 1)..(i - 1) : IsCategoryFetch(reqs[j], "dst")

C3_OneStageAtATime ==
    (pc' # pc /\ ~IsCrashed(pc') /\ pc' # "done")
        => RankRunning' \in {RankRunning, RankRunning + 1}

C3_NothingAfterACrash == IsCrashed(pc) => reqs' = reqs

C3_StagesInOrder ==
    /\ [](C3_RequestsInStageOrder /\ C3_RequestsOfTheStageRunning
          /\ C3_PermissionsAfterCategories)
    /\ [][C3_OneStageAtATime /\ C3_NothingAfterACrash]_vars

(* A run has gone through the five stages and has sent category creates,   *)
(* the permission create and a role assignment.                            *)
C3_Witness ==
    /\ pc = "done"
    /\ Requests(IsTenantCreate) # {}
    /\ Requests(IsCategoryCreate) # {}
    /\ Requests(IsPermissionCreate) # {}
    /\ Requests(IsRoleAssign) # {}

-----------------------------------------------------------------------------
(* C4: no role assignment request is sent for a user without a destination *)
(* id, and none with an empty list of role ids.                            *)
C4_AssignmentsHaveTargetAndRoles ==
    \A i \in Requests(IsRoleAssign) :
        /\ reqs[i].url[2][2] # "NaN"
        /\ reqs[i].body # <<>>

-----------------------------------------------------------------------------
(* C5: every role id of a role assignment request is the id of a role of   *)
(* the destination whose key is the key of the source role it stands for;  *)
(* the source ids without such a role are dropped, the others keep their   *)
(* order (and are all kept when the two role lists were fetched and no two *)
(* source roles share a key).                                              *)

(* The destination roles that have the key of the source role of an id. *)
Counterparts(source_id) ==
    {destRoles[j].id : j \in {j \in 1..Len(destRoles) :
        \E i \in 1..Len(srcRoles) :
            srcRoles[i].id = source_id /\ srcRoles[i].key = destRoles[j].key}}

RECURSIVE IsTranslationOf(_, _, _)
(* sent is source_ids with every id replaced by a counterpart or dropped;  *)
(* an id is dropped only if it has no counterpart, when all is set.        *)
IsTranslationOf(sent, source_ids, all) ==
    IF source_ids = <<>> THEN sent = <<>>
    ELSE \/ /\ all => Counterparts(Head(source_ids)) = {}
            /\ IsTranslationOf(sent, Tail(source_ids), all)
         \/ /\ sent # <<>>
            /\ Head(sent) \in Counterparts(Head(source_ids))
            /\ IsTranslationOf(Tail(sent), Tail(source_ids), all)

SourceKeysDistinct ==
    \A i, j \in 1..Len(srcRoles) : i # j => srcRoles[i].key # srcRoles[j].key

BothRoleListsFetched ==
    /\ \E i \in Requests(LAMBDA r : IsRolesList(r, "src")) : reqs[i].status = "ok"
    /\ \E i \in Requests(LAMBDA r : IsRolesList(r, "dst")) : reqs[i].status = "ok"

C5_AssignedRolesAreDestinationRoles ==
    \A i \in Requests(IsRoleAssign) :
        /\ \A k \in 1..Len(reqs[i].body) :
              \E j \in 1..Len(destRoles) : destRoles[j].id = reqs[i].body[k]
        /\ \E n \in 1..Len(srcAssign) :
              IsTranslationOf(reqs[i].body, srcAssign[n].roleIds,
                              SourceKeysDistinct /\ BothRoleListsFetched)

(* An assignment was sent in which one role id was translated and another  *)
(* dropped.                                                                *)
C5_Witness ==
    \E i \in Requests(IsRoleAssign) :
        /\ Len(reqs[i].body) = 1
        /\ \E n \in 1..Len(srcAssign) : Len(srcAssign[n].roleIds) = 2

-----------------------------------------------------------------------------
(* C6: after the user join every source user is in exactly one row, and    *)
(* the row has a destination id exactly if a destination user has the same *)
(* lower-cased email and the same tenantId.                                *)
HasMatch(u) ==
    \E j \in 1..Len(destUsers) :
        /\ Lower(destUsers[j].email) = Lower(u.email)
        /\ destUsers[j].tenantId = u.tenantId

C6_JoinExactlyOnce ==
    pc = "u_roles" =>
        \A i \in 1..Len(srcUsers) :
            LET rows == {k \in 1..Len(users_df) : users_df[k].id_source = srcUsers[i].id}
            IN  /\ Cardinality(rows) = 1
                /\ \A k \in rows : (users_df[k].id_dest # "NaN") <=> HasMatch(srcUsers[i])

-----------------------------------------------------------------------------
(* C7: every permission of the permission create request carries the id of *)
(* a destination category that has the name of the permission's source     *)
(* category; a permission whose source category has no destination         *)
(* category of its name is not in the request.                             *)
SourceCategoryNames(category_id) ==
    {srcCategories[i].name : i \in {i \in 1..Len(srcCategories) : srcCategories[i].id = category_id}}

SourcePermission(key) ==
    srcPermissions[CHOOSE i \in 1..Len(srcPermissions) : srcPermissions[i].key = key]

C7_PermissionsCarryDestinationCategory ==
    \A i \in Requests(IsPermissionCreate) :
        LET sent == reqs[i].body IN
        /\ \A k \in 1..Len(sent) :
              /\ sent[k].categoryId # "None"
              /\ \E j \in 1..Len(destCategories) :
                    /\ destCategories[j].id = sent[k].categoryId
                    /\ destCategories[j].name
                          \in SourceCategoryNames(SourcePermission(sent[k].key).categoryId)
        /\ \A n \in 1..Len(srcPermissions) :
              (SourceCategoryNames(srcPermissions[n].categoryId) \cap DestCategoryNames = {})
                  => \A k \in 1..Len(sent) : sent[k].key # srcPermissions[n].key

(* The request was sent with one permission whose category this run        *)
(* created, and without another that has no destination category.          *)
C7_Witness ==
    \E i \in Requests(IsPermissionCreate) :
        /\ Len(reqs[i].body) = 1
        /\ Len(srcPermissions) = 2
        /\ \E k \in Requests(IsCategoryCreate) : reqs[k].status = "ok"
        /\ reqs[i].body[1].categoryId = destCategories[Len(destCategories)].id

-----------------------------------------------------------------------------
(* C10: when the only failures of a run are non-429 failures of per-item   *)
(* calls (tenant create, metadata set, category create, a role-fetch       *)
(* chunk, a role assignment), no exception leaves a stage.                 *)
OnlyPerItemFailures ==
    /\ csvPresent
    /\ \A i \in 1..Len(reqs) :
          reqs[i].status # "ok" => (IsPerItem(reqs[i]) /\ reqs[i].status = "err")

C10_PerItemFailuresContained == OnlyPerItemFailures => ~IsCrashed(pc)

-----------------------------------------------------------------------------
(* C11: translate_role_ids returns, for every translation and every list   *)
(* of ids, the JSON text of a list that is no longer than the input, holds *)
(* values of the translation only, and is the input with every id that is  *)
(* a key replaced by its value and every other id left out, in the input's  *)
(* order; and it writes one log line for every id that is not a key.       *)
C11_TranslateTotal ==
    call.state = "returned" =>
        LET m == call.role_id_translation
            ids == call.role_ids
            out == JsonLoads(call.result)
            keys == SelectSeq(ids, LAMBDA r : r \in DOMAIN m)
            misses == SelectSeq(ids, LAMBDA r : r \notin DOMAIN m)
        IN  /\ Len(out) <= Len(ids)
            /\ \A k \in 1..Len(out) : \E r \in DOMAIN m : out[k] = m[r]
            /\ Len(out) = Len(keys)
            /\ \A k \in 1..Len(out) : out[k] = m[keys[k]]
            /\ call.log = misses

(* A call has returned for two ids of which one is a key of the            *)
(* translation and the other is not.                                       *)
C11_Witness ==
    /\ call.state = "returned"
    /\ Len(call.role_ids) = 2
    /\ Len(JsonLoads(call.result)) = 1
    /\ Len(call.log) = 1

-----------------------------------------------------------------------------
(* C12: the file create_migration_csv writes has one row for every row of  *)
(* the user file, in the user file's order; the row of a user whose hash   *)
(* rows have distinct createdAt values carries the hash of the row with    *)
(* the greatest createdAt, wherever that row stands in the hash file; and  *)
(* the row of a user without a hash row is there, with no hash.            *)
HashRowsOf(userId) ==
    {i \in 1..Len(user_passwords.rows) : user_passwords.rows[i].userId = userId}

DistinctTimestamps(S) ==
    \A i, j \in S : i # j => user_passwords.rows[i].createdAt # user_passwords.rows[j].createdAt

CsvWritten == pc = AfterStage("Credentials") /\ migration_data # NoFile

C12_LatestHashPerUser ==
    CsvWritten =>
        /\ Len(migration_data.rows) = Len(user_details.rows)
        /\ \A i \in 1..Len(user_details.rows) :
              LET mine == HashRowsOf(user_details.rows[i].userId) IN
              /\ \A col \in Range(migration_data.columns) \cap Range(user_details.columns) :
                    migration_data.rows[i][col] = user_details.rows[i][col]
              /\ mine = {} => migration_data.rows[i].hash = "NaN"
              /\ (mine # {} /\ DistinctTimestamps(mine)) =>
                    \E k \in mine :
                        /\ \A j \in mine : user_passwords.rows[j].createdAt.iso
                                              <= user_passwords.rows[k].createdAt.iso
                        /\ migration_data.rows[i].hash = user_passwords.rows[k].hash

(* The file was written for a user with three hash rows whose latest is    *)
(* the first row of the hash file, and for a user without a hash row.      *)
C12_Witness ==
    /\ CsvWritten
    /\ Len(user_details.rows) = 2
    /\ \E i, j \in 1..Len(user_details.rows) :
          LET mine == HashRowsOf(user_details.rows[i].userId) IN
          /\ Cardinality(mine) = 3
          /\ DistinctTimestamps(mine)
          /\ migration_data.rows[i].hash = user_passwords.rows[1].hash
          /\ HashRowsOf(user_details.rows[j].userId) = {}
          /\ migration_data.rows[j].hash = "NaN"

-----------------------------------------------------------------------------
(* C17: the file create_migration_csv writes has, for every column of the  *)
(* two input files that columns_to_select lists, a column of the renamed   *)
(* name (hash: passwordHash, account: tenantId, phone: phoneNumber,        *)
(* verified: verifyUser), in the order of the table, and no column of an   *)
(* input name the table renames.                                           *)
C17_ColumnsRenamed ==
    CsvWritten =>
        LET input == Range(user_details.columns) \cup Range(user_passwords.columns)
            present == SelectSeq(columns_to_select, LAMBDA e : e[1] \in input)
        IN  /\ migration_data.columns = [k \in 1..Len(present) |-> present[k][2]]
            /\ \A k \in 1..Len(present) :
                  present[k][1] # present[k][2]
                      => present[k][1] \notin Range(migration_data.columns)

-----------------------------------------------------------------------------
(* C13: a failed authentication (the credential rejected, or an answer     *)
(* that carries no token) is fatal wherever it happens: the exception      *)
(* leaves the stage and migrate(), and the failed authentication is the    *)
(* last request of the run.                                                *)
IsAuthentication(r) == r.method = "POST" /\ r.url[2] = <<"auth_vendor">>

C13_AuthFailureFatal ==
    \A i \in Requests(IsAuthentication) :
        reqs[i].status # "ok" => (i = Len(reqs) /\ IsCrashed(pc))

-----------------------------------------------------------------------------
(* C15: no request is sent with a token that had expired when the request  *)
(* was sent: the session authenticates again before every request, the     *)
(* page requests of a paginated fetch and the requests of a loop included. *)
C15_NoRequestWithExpiredToken ==
    \A i \in 1..Len(reqs) : ~reqs[i].stale

-----------------------------------------------------------------------------
(* C14: a translation map has an entry only for a source id whose natural  *)
(* key a destination entity has, and maps no key to None. For              *)
(* category_mapping, the map of migrate_settings: every key is the id of a *)
(* source category whose name a destination category has, and its value is *)
(* the id of such a category.                                              *)
C14_NoSentinelInCategoryMapping ==
    \A id \in DOMAIN category_mapping :
        /\ category_mapping[id] # "None"
        /\ \E j \in 1..Len(destCategories) :
              /\ destCategories[j].id = category_mapping[id]
              /\ destCategories[j].name \in SourceCategoryNames(id)

-----------------------------------------------------------------------------
(* C16: in the tenant stage one metadata request is sent for every source  *)
(* tenant that carries metadata, and none for another tenant; every        *)
(* metadata request follows the create requests of its tenant; and a       *)
(* metadata request that fails, or metadata that does not parse, neither   *)
(* ends the stage nor takes a tenant from the destination. Stated for what *)
(* the claim and the MalformedInput rule agree on: the tenants counted are *)
(* those whose metadata is not empty and parses (lines 175-177), and the   *)
(* stage may end early on a failed full fetch or a failed authentication,  *)
(* which are fatal.                                                        *)
MetadataSets(r, t) ==
    {i \in 1..Len(reqs) : IsMetadataSet(reqs[i]) /\ reqs[i].run = r /\ reqs[i].url[2][2] = t}

SourceTenantsWith(t, P(_)) ==
    {k \in 1..Len(srcTenants) : srcTenants[k].tenantId = t /\ P(srcTenants[k].meta)}

TenantStageReturned == pc = AfterStage("Tenants")

SendsMetadata(meta) == MetadataTruthy(meta) /\ MetadataParses(meta)

C16_MetadataAfterCreate ==
    \A i \in Requests(IsMetadataSet) :
        \A k \in TenantCreates(reqs[i].run) :
            reqs[k].body[1] = reqs[i].url[2][2] => k < i

(* Only a failed request of a full fetch or a failed authentication ends   *)
(* the stage early.                                                        *)
C16_StageEndsEarlyOnlyWhenFatal ==
    IsCrashed(pc) =>
        /\ reqs[Len(reqs)].status # "ok"
        /\ reqs[Len(reqs)].method = "GET" \/ IsAuthentication(reqs[Len(reqs)])

C16_CreatedTenantsKept ==
    \A k \in TenantCreates(run) :
        reqs[k].status = "ok" => reqs[k].body[1] \in DestTenantIds

(* C16: the three parts of the claim as one statement. *)
C16_MetadataForEveryParsed ==
    /\ TenantStageReturned =>
          \A t \in TenantIds :
              Cardinality(MetadataSets(run, t))
                  = Cardinality(SourceTenantsWith(t, SendsMetadata))
    /\ C16_MetadataAfterCreate
    /\ C16_StageEndsEarlyOnlyWhenFatal
    /\ C16_CreatedTenantsKept

-----------------------------------------------------------------------------
(* C18: when get_all_user_roles has returned, the role requests sent with  *)
(* the header of a tenant carry chunks of at most chunk_size ids, none     *)
(* empty, that put one after the other are the list of the tenant's source *)
(* user ids; the records collected are those of the chunks whose request   *)
(* succeeded; and no failure of a role request ends the stage.             *)
RoleFetchesOf(t) == SelectSeq(reqs, LAMBDA r : IsRoleFetch(r) /\ r.tenantHdr = t)

ChunksOf(requests) == [i \in 1..Len(requests) |-> requests[i].params[2]]

Concat(lists) == FlatMap(LAMBDA list, ctx : list, lists, 0)

AllRolesFetched == pc = "u_roles" /\ tenant_ix > Len(TenantIdsOf(users_df))

SucceededChunks ==
    ChunksOf(SelectSeq(reqs, LAMBDA r : IsRoleFetch(r) /\ r.status = "ok"))

C18_ChunkedRoleFetch ==
    /\ AllRolesFetched =>
          /\ \A t \in TenantIds :
                LET chunks == ChunksOf(RoleFetchesOf(t)) IN
                /\ \A k \in 1..Len(chunks) :
                      Len(chunks[k]) >= 1 /\ Len(chunks[k]) <= ChunkSize
                /\ Concat(chunks) = UserIdsOf(users_df, t)
          /\ \A i \in Requests(IsRoleFetch) :
                reqs[i].acct = "src" /\ reqs[i].tenantHdr \in Range(TenantIdsOf(users_df))
          /\ [i \in 1..Len(all_user_roles) |-> all_user_roles[i].userId]
                = Concat([k \in 1..Len(SucceededChunks) |-> Unique(SucceededChunks[k])])
    /\ IsCrashed(pc) => ~IsRoleFetch(reqs[Len(reqs)])

(* The roles of a tenant with three source users were fetched in two       *)
(* chunks; the request of the first failed, that of the second succeeded   *)
(* and gave the record of the third user.                                  *)
C18_Witness ==
    /\ AllRolesFetched
    /\ \E t \in TenantIds :
          LET requests == RoleFetchesOf(t) IN
          /\ Len(UserIdsOf(users_df, t)) = 3
          /\ Len(requests) = 2
          /\ requests[1].status = "err"
          /\ requests[2].status = "ok"
          /\ Len(all_user_roles) = 1
          /\ all_user_roles[1].userId = UserIdsOf(users_df, t)[3]

-----------------------------------------------------------------------------
(* C19: the source account is only read. Every request of the source       *)
(* session is a GET or the session's own authentication, and goes to the   *)
(* source's address; every create, metadata, permission and role           *)
(* assignment request is sent by the destination session to the            *)
(* destination's address; and no step changes a collection of the source.  *)
IsWrite(r) ==
    \/ IsTenantCreate(r)
    \/ IsMetadataSet(r)
    \/ IsCategoryCreate(r)
    \/ IsPermissionCreate(r)
    \/ IsRoleAssign(r)

C19_SourceRequestsAreReads ==
    \A i \in 1..Len(reqs) :
        /\ reqs[i].acct = "src" =>
              /\ reqs[i].method = "GET" \/ IsAuthentication(reqs[i])
              /\ reqs[i].url[1] = "https://api.frontegg.com"
        /\ reqs[i].url[1] = "https://api.frontegg.com" =>
              (reqs[i].method = "GET" \/ IsAuthentication(reqs[i]))
        /\ IsWrite(reqs[i]) =>
              /\ reqs[i].acct = "dst"
              /\ reqs[i].url[1] = "https://api.us.frontegg.com"
        /\ reqs[i].method = "POST" => (IsWrite(reqs[i]) \/ IsAuthentication(reqs[i]))

C19_SourceCollectionsKept ==
    UNCHANGED <<srcTenants, srcCategories, srcPermissions, srcUsers, srcRoles, srcAssign>>

C19_SourceReadOnly ==
    /\ []C19_SourceRequestsAreReads
    /\ [][C19_SourceCollectionsKept]_vars

(* A run is over in which the source session authenticated and every kind  *)
(* of write was sent.                                                      *)
C19_Witness ==
    /\ pc = "done"
    /\ \E i \in Requests(IsAuthentication) : reqs[i].acct = "src"
    /\ Requests(IsTenantCreate) # {}
    /\ Requests(IsMetadataSet) # {}
    /\ Requests(IsCategoryCreate) # {}
    /\ Requests(IsPermissionCreate) # {}
    /\ Requests(IsRoleAssign) # {}

-----------------------------------------------------------------------------
(* C20: the users stage ends without an exception on empty inputs. When    *)
(* the destination has no user, or the source has no user, or no source    *)
(* user has an assignment record, and every request is answered 2xx, no    *)
(* exception leaves the stage and no role assignment request is sent.      *)
EmptyUsersInput ==
    \/ destUsers = <<>>
    \/ srcUsers = <<>>
    \/ \A i \in 1..Len(srcUsers) :
          \A n \in 1..Len(srcAssign) : srcAssign[n].userId # srcUsers[i].id

AllRequestsSucceeded == \A i \in 1..Len(reqs) : reqs[i].status = "ok"

C20_EmptyInputsFinish ==
    (EmptyUsersInput /\ AllRequestsSucceeded) =>
        (~IsCrashed(pc) /\ Requests(IsRoleAssign) = {})

=============================================================================
